---- MODULE Spec2Model ----
(***************************************************************************)
(* Model of bot.py (MediaInfo bot): the report formatter parse_mediainfo   *)
(* with format_size and SECTION_ICONS, and the request orchestrator        *)
(* process_media with its collaborators stream_media, get_mediainfo and    *)
(* create_telegraph_page.                                                  *)
(*                                                                         *)
(* Text is modelled as a sequence of tokens.  A token is either one of the *)
(* recognised labels, a single character ("<", ">", " "), or an opaque     *)
(* piece of text that contains none of these.  Markup emitted by the       *)
(* program is a token of its own (for example "<h4>"), so a raw "<" token  *)
(* in the output can only come from the input.  A multi-line string is the *)
(* sequence of its lines (str.split on newline and str.join with newline   *)
(* are inverse to each other on such sequences).  Glyphs are written as    *)
(* ASCII names.                                                            *)
(***************************************************************************)
EXTENDS Integers, Sequences, FiniteSets, TLC

VARIABLES
    \* ---- formatter run (parse_mediainfo called on its own) ----
    mediainfo_output,   \* the raw analysis text, a sequence of lines
    file_name,          \* the display name
    file_size,          \* the byte count
    html,               \* the returned document, a sequence of lines
    ppc,                \* "call" before the call, "done" after it
    \* ---- orchestrator (process_media), one entry per request ----
    pc,                 \* position of each request in process_media
    msg,                \* the message each request was invoked with
    files,              \* temporary files that exist on disk
    issued,             \* texts passed to reply_text / edit_text, in order,
                        \* each with whether the send returned (delivered)
                        \* or raised
    calls,              \* stages invoked so far, in order
    result,             \* the locals of process_media
    raised,             \* TRUE when process_media ended by raising
    \* ---- size formatter run (format_size called on its own) ----
    size_in,            \* the byte count handed to format_size
    formatted,          \* what format_size returned
    fpc,                \* "call" before the call, "done" after it
    \* ---- sample extractor run (stream_media called on its own) ----
    stream_in,          \* the arguments and the behaviour of the stream
    stream_out,         \* what stream_media returned and left on disk
    spc                 \* "call" before the call, "done" after it

parseVars == <<mediainfo_output, file_name, file_size, html, ppc>>
procVars == <<pc, msg, files, issued, calls, result, raised>>
sizeVars == <<size_in, formatted, fpc>>
streamVars == <<stream_in, stream_out, spc>>
vars == <<mediainfo_output, file_name, file_size, html, ppc,
          pc, msg, files, issued, calls, result, raised,
          size_in, formatted, fpc, stream_in, stream_out, spc>>

-----------------------------------------------------------------------------
(* Bounds *)

MaxLines == 4

MaxLimit == 3

MaxChunks == 3

NumConc == 2

NumReq == 1

\* The lines an input is made of: blank lines, exact headers, headers with
\* more text after the label, headers with angle brackets, padded headers,
\* plain content, content with angle brackets, content with a label inside.
Lines ==
    { <<>>,
      <<" ">>,
      <<"General">>,
      <<"Text">>,
      <<"Audio", " ", "#1">>,
      <<"Video", " ", "<", "x", ">">>,
      <<" ", "Text", " ", "#2", " ">>,
      <<"x">>,
      <<"<", "x", ">">>,
      <<" ", "x", "Text">> }

Names == { <<"clip">>, <<"<", "b", ">">> }

Sizes == { 0, 5242880 }

RECURSIVE SeqsUpTo(_, _)
SeqsUpTo(S, n) ==
    IF n = 0 THEN { <<>> }
    ELSE LET shorter == SeqsUpTo(S, n - 1)
         IN  shorter \cup { Append(s, e) : s \in { t \in shorter : Len(t) = n - 1 }, e \in S }

RawInputs == { s \in SeqsUpTo(Lines, MaxLines) : Len(s) >= 1 }

-----------------------------------------------------------------------------
(* Text helpers: str.strip, str.startswith, str.replace *)

RECURSIVE lstrip(_)
lstrip(s) == IF s # <<>> /\ Head(s) = " " THEN lstrip(Tail(s)) ELSE s

RECURSIVE rstrip(_)
rstrip(s) ==
    IF s # <<>> /\ s[Len(s)] = " " THEN rstrip(SubSeq(s, 1, Len(s) - 1)) ELSE s

strip(s) == rstrip(lstrip(s))

startswith(s, prefix) == s # <<>> /\ Head(s) = prefix

replace(s, old, new) == [i \in 1..Len(s) |-> IF s[i] = old THEN new ELSE s[i]]

-----------------------------------------------------------------------------
(* Absent values (Python None) *)

NoneName == <<"NoneType">>
NoneSize == -1

\* an attribute the object does not have at all (getattr falls back)
MissingName == <<"AttributeMissing">>
MissingSize == -2

\* getattr(media, 'file_name', 'Unknown')
getattr_file_name(media) ==
    IF media.file_name = MissingName THEN <<"Unknown">> ELSE media.file_name

\* getattr(media, 'file_size', 0)
getattr_file_size(media) ==
    IF media.file_size = MissingSize THEN 0 ELSE media.file_size

-----------------------------------------------------------------------------
(* format_size *)

Units == <<"B", "KB", "MB", "GB", "TB">>

\* A byte count is held as six base-1024 digits, least significant first;
\* the sixth is the count divided by 1024^5 and is not limited to 1023.
\* Counts stay below 2^53, where the conversion to float and the divisions
\* by 1024 are exact.
Wide(n) ==
    << n % 1024, (n \div 1024) % 1024, (n \div 1048576) % 1024,
       n \div 1073741824, 0, 0 >>

NoneCount == <<NoneSize>>

\* `size < 1024` or worse: up to 1024 itself
below_or_at_1024(c, k) ==
    \/ \A j \in (k + 2)..6 : c[j] = 0
    \/ /\ c[k + 2] = 1
       /\ \A j \in 1..6 : j # k + 2 => c[j] = 0

\* `size < 1024` after k divisions by 1024
below_1024(c, k) == \A j \in (k + 2)..6 : c[j] = 0

\* 100 times the fraction 0.c[k] c[k-1] ... c[1] (base 1024): the carry out
\* of the top digit is the integer part, the digits left are the fraction
RECURSIVE Mul100(_, _, _, _)
Mul100(c, i, k, acc) ==
    IF i > k THEN acc
    ELSE LET t == 100 * c[i] + acc.carry
         IN  Mul100(c, i + 1, k,
                    [carry |-> t \div 1024, digits |-> Append(acc.digits, t % 1024)])

\* round(100 * size), size being the count after k divisions by 1024;
\* the ".2f" conversion rounds the exact binary value, ties to even
Hundredths(c, k) ==
    LET m == Mul100(c, 1, k, [carry |-> 0, digits |-> <<>>])
        h0 == 100 * c[k + 1] + m.carry
        top == IF k = 0 THEN 0 ELSE m.digits[k]
        rest == \E i \in 1..(k - 1) : m.digits[i] # 0
    IN  IF top > 512 \/ (top = 512 /\ rest) THEN h0 + 1
        ELSE IF top = 512 THEN (IF h0 % 2 = 0 THEN h0 ELSE h0 + 1)
        ELSE h0

\* f"{size:.2f} {unit}"
Formatted(h, unit) ==
    [ value |-> h, unit |-> unit,
      text |-> ToString(h \div 100) \o "." \o
               (IF h % 100 < 10 THEN "0" ELSE "") \o ToString(h % 100)
               \o " " \o unit ]

RECURSIVE FormatLoop(_, _)
FormatLoop(c, k) ==
    IF k = Len(Units) THEN Formatted(Hundredths(c, k), "PB")
    ELSE IF below_1024(c, k) THEN Formatted(Hundredths(c, k), Units[k + 1])
    ELSE FormatLoop(c, k + 1)

\* format_size on a count in digits
format_count(c) == FormatLoop(c, 0)

\* `None < 1024` raises TypeError
format_raises(c) == c = NoneCount

RaisedTypeError == [value |-> -1, unit |-> "", text |-> "TypeError"]

format_size(size) == format_count(Wide(size)).text

-----------------------------------------------------------------------------
(* parse_mediainfo *)

DefaultIcon == "icon_document"

SectionOrder == <<"General", "Video", "Audio", "Text", "Subtitle", "Menu">>

SECTION_ICONS ==
    [ General  |-> "icon_notepad",
      Video    |-> "icon_film",
      Audio    |-> "icon_speaker",
      Text     |-> "icon_abcd",
      Subtitle |-> "icon_abcd",
      Menu     |-> "icon_cardbox" ]

\* SECTION_ICONS.get(key, default): the key is a whole string
IconGet(key) ==
    IF Len(key) = 1 /\ key[1] \in DOMAIN SECTION_ICONS
    THEN SECTION_ICONS[key[1]]
    ELSE DefaultIcon

clean_value_lt_only(value) == replace(value, "<", "&lt;")

clean_value(value) == replace(replace(value, "<", "&lt;"), ">", "&gt;")

is_section_header(line) ==
    \E k \in 1..Len(SectionOrder) : startswith(line, SectionOrder[k])

display_section(current_section) ==
    IF startswith(current_section, "Text")
    THEN replace(current_section, "Text", "Subtitle")
    ELSE current_section

\* "\n".join(section_content), as lines of the final document
JoinLines(section_content) ==
    IF section_content = <<>> THEN << <<>> >> ELSE section_content

RenderSection(current_section, section_content) ==
    << <<"<h4>", IconGet(current_section), " ">>
           \o display_section(current_section) \o <<"</h4>">>,
       <<"<pre>">> >>
    \o JoinLines(section_content)
    \o << <<"</pre><br>">> >>

HeaderBlock(name, size) ==
    << <<"<h3>File Information</h3>">>,
       <<"<p><strong>File Name:</strong> <em>">> \o clean_value(name) \o <<"</em></p>">>,
       <<"<p><strong>File Size:</strong> <em>", format_size(size), "</em></p>">>,
       <<"<hr>">> >>

Disclaimer ==
    <<"<p><em>Note: Analysis is based on initial portions of the file.</em></p>">>

AppendContentFront(section_content, line) == <<clean_value(line)>> \o section_content

AppendContent(section_content, line) == Append(section_content, clean_value(line))

\* one iteration of the loop over the lines (bot.py lines 94-120)
not_line_never(line) == FALSE

\* `not line`, on the stripped line
not_line(line) == line = <<>>

ParseLine(st, rawline) ==
    LET line == strip(rawline)
    IN  IF not_line(line) THEN st
        ELSE IF is_section_header(line)
        THEN [ current_section |->
                   IF startswith(line, "Text")
                   THEN replace(line, "Text", "Subtitle") ELSE line,
               section_content |-> <<>>,
               html_parts |->
                   IF st.current_section # <<>>
                   THEN st.html_parts
                        \o RenderSection(st.current_section, st.section_content)
                   ELSE st.html_parts ]
        ELSE IF st.current_section # <<>>
        THEN [st EXCEPT !.section_content = AppendContent(@, line)]
        ELSE st

RECURSIVE ParseLoop(_, _)
ParseLoop(st, lines) ==
    IF lines = <<>> THEN st ELSE ParseLoop(ParseLine(st, Head(lines)), Tail(lines))

\* the flush after the loop and the disclaimer (bot.py lines 122-132)
ParseFinish(st) ==
    (IF st.current_section # <<>> /\ st.section_content # <<>>
     THEN st.html_parts \o RenderSection(st.current_section, st.section_content)
     ELSE st.html_parts)
    \o <<Disclaimer>>

parse_mediainfo(output, name, size) ==
    ParseFinish(ParseLoop([ current_section |-> <<>>,
                            section_content |-> <<>>,
                            html_parts |-> HeaderBlock(name, size) ],
                          output))

\* parse_mediainfo raises on an absent name (None.replace) or size (None < 1024)
parse_raises(name, size) == name = NoneName \/ size = NoneSize

-----------------------------------------------------------------------------
(* Messages and media items *)

Reqs == 1..NumReq

NoMedia == [id |-> "none", file_name |-> NoneName, file_size |-> NoneSize]

\* pyrogram's Document, Video and Audio always carry the attributes
\* file_name and file_size; either may hold None
MediaItems ==
    { [id |-> "mA", file_name |-> <<"clip">>, file_size |-> 5242880],
      [id |-> "mB", file_name |-> NoneName, file_size |-> 0],
      [id |-> "mC", file_name |-> <<"song">>, file_size |-> NoneSize] }

\* message.document or message.video or message.audio is `media`;
\* message.reply_to_message is present iff has_reply, and reply_media is its
\* document / video / audio
NoMessage == [media |-> NoMedia, has_reply |-> FALSE, reply_media |-> NoMedia]

\* what pyrogram hands to media_handler: a private message carrying media,
\* possibly a reply to any other message
MediaMessages ==
    { [media |-> m, has_reply |-> FALSE, reply_media |-> NoMedia] : m \in MediaItems }
    \cup { [media |-> m, has_reply |-> TRUE, reply_media |-> rm] :
              m \in MediaItems, rm \in MediaItems \cup {NoMedia} }

\* what pyrogram hands to mediainfo_command: a command message, possibly a
\* reply; the replied-to message carries no reply_to_message of its own
CommandMessages ==
    { NoMessage }
    \cup { [media |-> NoMedia, has_reply |-> TRUE, reply_media |-> rm] :
              rm \in MediaItems \cup {NoMedia} }

reply_to_message(message) ==
    [media |-> message.reply_media, has_reply |-> FALSE, reply_media |-> NoMedia]

get_media_from_message(message) ==
    IF message.has_reply THEN message.reply_media ELSE message.media

-----------------------------------------------------------------------------
(* Texts sent to the requester *)

Text(t) == [text |-> t, file |-> <<>>, size |-> "", url |-> ""]

Processing      == Text("Processing media info...")
Analyzing       == Text("Analyzing media info...")
Generating      == Text("Generating report...")
NoMediaFound    == Text("Please send a media file or reply to one with /mediainfo")
DownloadFailed  == Text("Failed to download media sample!")
AnalysisFailed  == Text("Failed to analyze media!")
ReportFailed    == Text("Failed to generate report!")
CommandRejected == Text("Please reply to a media file with /mediainfo or /mi")

SuccessText(name, size, url) ==
    [text |-> "Media Information", file |-> name, size |-> format_size(size), url |-> url]

UnexpectedTextLeak(exc) == Text(exc)

\* the text of the outer except handler; the exception only goes to the log
UnexpectedText(exc) ==
    Text("An error occurred while processing the media! Please try again later.")

-----------------------------------------------------------------------------
(* Outcomes of the collaborators *)

\* stdout of the analysis tool; the empty string is one empty line
EmptyOutput == << <<>> >>

Outputs ==
    { EmptyOutput,
      << <<"General">>, <<"x">> >> }

\* what get_mediainfo returns for a file: the tool prints sections only for
\* a file that is there to read
ToolOutputs(present) == IF present THEN Outputs ELSE {EmptyOutput}

PageUrl == "https://graph.org/page"

\* what telegraph.create_page does: raises, returns nothing, returns a
\* response without a path, or returns a response with the path "page"
Responses == {"raise", "none", "no_path", "path"}

\* what the follow-up GET of the page does: raises, or completes with a status
Fetches == {"raise", "200", "404"}

\* the environments create_telegraph_page can meet: the page is fetched only
\* after a response with a path
PageEnvs ==
    { <<resp, "">> : resp \in Responses \ {"path"} }
    \cup { <<"path", f>> : f \in Fetches }

\* `not response or 'path' not in response`
invalid_response(response) == response \in {"none", "no_path"}

status_bad_never(status) == FALSE

\* `resp.status != 200`
status_bad(status) == status # "200"

\* create_telegraph_page (bot.py lines 134-161): the URL, or "" for None;
\* every exception is caught and turned into None
create_telegraph_page(response, fetch) ==
    IF response = "raise" THEN ""
    ELSE IF invalid_response(response) THEN ""
    ELSE IF fetch = "raise" THEN ""
    ELSE IF status_bad(fetch) THEN ""
    ELSE "https://graph.org/" \o "page"

NoPath == 0

\* The loop of stream_media (bot.py lines 34-39), from its i-th iteration on,
\* `written` chunks being in the file.  The stream yields `total` chunks and
\* fetching or writing the chunk numbered fail_at raises (0: nothing raises).
RECURSIVE StreamLoop(_, _, _, _, _)
StreamLoop(i, written, limit, total, fail_at) ==
    IF i = fail_at THEN [raised |-> TRUE, written |-> written]
    ELSE IF i > total THEN [raised |-> FALSE, written |-> written]
    ELSE IF i >= limit THEN [raised |-> FALSE, written |-> written + 1]
    ELSE StreamLoop(i + 1, written + 1, limit, total, fail_at)

\* stream_media (bot.py lines 26-44): what it returns (NoPath for None), how
\* many chunks it wrote, and whether the file it opened was closed again
stream_media(has_media, temp_path, limit, total, fail_at, open_ok) ==
    IF ~has_media THEN
        [ret |-> NoPath, written |-> 0, opened |-> FALSE, closed |-> FALSE]
    ELSE IF ~open_ok THEN
        [ret |-> NoPath, written |-> 0, opened |-> FALSE, closed |-> FALSE]
    ELSE LET run == StreamLoop(1, 0, limit, total, fail_at)
         IN  [ ret |-> IF run.raised THEN NoPath ELSE temp_path,
               written |-> run.written, opened |-> TRUE, closed |-> TRUE ]

\* the streams process_media meets: no chunk at all, two chunks, and two
\* chunks with an error at the first
StreamEnvs ==
    { [total |-> 0, fail_at |-> 0], [total |-> 2, fail_at |-> 0],
      [total |-> 2, fail_at |-> 1] }

\* tempfile.NamedTemporaryFile creates a file under a name of its own; the
\* name made for request r is r
TempPathShared(r) == 1

TempPath(r) == r

EmptyResult ==
    [ file_name |-> NoneName, file_size |-> NoneSize, temp_path |-> NoPath,
      sampled |-> "none", analysed |-> FALSE, output |-> EmptyOutput,
      html |-> <<>>, url |-> "", exc |-> "",
      response |-> "", fetch |-> "", chunks |-> 0, found |-> FALSE ]

-----------------------------------------------------------------------------
(* process_media and the two handlers that call it *)

Send(r, text, ok) ==
    issued' = [issued EXCEPT ![r] = Append(@, [text |-> text, delivered |-> ok])]

Call(r, stage) == calls' = [calls EXCEPT ![r] = Append(@, stage)]

Goto(r, label) == pc' = [pc EXCEPT ![r] = label]

\* where a `return` inside the inner try continues: the finally clause
ReturnInTryNoFinally == "done"

ReturnInTry == "l236_return"

\* where an exception inside the inner try continues: the finally clause
RaiseInTry == "l236_raise"

not_path_never(downloaded_path) == FALSE

\* `not downloaded_path`
not_path(downloaded_path) == downloaded_path = NoPath

not_output_never(output) == FALSE

\* `not mediainfo_output`
not_output(output) == output = EmptyOutput

\* an edit_text inside the inner try: returns, or raises into the finally
EditInTry(r, text, label) ==
    \E ok \in BOOLEAN :
        /\ Send(r, text, ok)
        /\ Goto(r, IF ok THEN label ELSE RaiseInTry)
        /\ result' = [result EXCEPT ![r].exc = IF ok THEN @ ELSE "RPCError"]

\* bot.py lines 260-262
MediaHandler(r) ==
    /\ pc[r] = "idle"
    /\ \E m \in MediaMessages : msg' = [msg EXCEPT ![r] = m]
    /\ Goto(r, "l182")
    /\ UNCHANGED <<files, issued, calls, result, raised, parseVars, sizeVars, streamVars>>

\* bot.py lines 247-258
MediainfoCommand(r) ==
    /\ pc[r] = "idle"
    /\ \E m \in CommandMessages :
        IF m.has_reply /\ m.reply_media # NoMedia
        THEN /\ msg' = [msg EXCEPT ![r] = reply_to_message(m)]
             /\ Goto(r, "l182")
             /\ UNCHANGED <<issued, raised>>
        ELSE /\ msg' = [msg EXCEPT ![r] = m]
             /\ \E ok \in BOOLEAN :
                    /\ Send(r, CommandRejected, ok)
                    /\ raised' = [raised EXCEPT ![r] = ~ok]
             /\ Goto(r, "rejected")
    /\ UNCHANGED <<files, calls, result, parseVars, sizeVars, streamVars>>

\* bot.py line 182: the first status message, sent outside the try
ReplyProcessing(r) ==
    /\ pc[r] = "l182"
    /\ \E ok \in BOOLEAN :
        /\ Send(r, Processing, ok)
        /\ Goto(r, IF ok THEN "l184" ELSE "done")
        /\ raised' = [raised EXCEPT ![r] = ~ok]
    /\ UNCHANGED <<msg, files, calls, result, parseVars, sizeVars, streamVars>>

\* bot.py lines 184-192
GetMedia(r) ==
    /\ pc[r] = "l184"
    /\ LET media == get_media_from_message(msg[r])
       IN  IF media = NoMedia
           THEN /\ Goto(r, "l186")
                /\ UNCHANGED result
           ELSE /\ Goto(r, "l194")
                /\ result' = [result EXCEPT ![r].file_name = getattr_file_name(media),
                                            ![r].file_size = getattr_file_size(media)]
    /\ UNCHANGED <<msg, files, issued, calls, raised, parseVars, sizeVars, streamVars>>

\* bot.py lines 186-189
EditNoMedia(r) ==
    /\ pc[r] = "l186"
    /\ \E ok \in BOOLEAN :
        /\ Send(r, NoMediaFound, ok)
        /\ Goto(r, IF ok THEN "done" ELSE "l242")
        /\ result' = [result EXCEPT ![r].exc = IF ok THEN @ ELSE "RPCError"]
    /\ UNCHANGED <<msg, files, calls, raised, parseVars, sizeVars, streamVars>>

\* bot.py lines 194-195
CreateTemp(r) ==
    /\ pc[r] = "l194"
    /\ \/ /\ files' = files \cup {TempPath(r)}
          /\ result' = [result EXCEPT ![r].temp_path = TempPath(r)]
          /\ Goto(r, "l198")
       \/ /\ result' = [result EXCEPT ![r].exc = "OSError"]
          /\ Goto(r, "l242")
          /\ UNCHANGED files
    /\ UNCHANGED <<msg, issued, calls, raised, parseVars, sizeVars, streamVars>>

\* bot.py lines 198-199 with stream_media, lines 26-44
StreamMedia(r) ==
    /\ pc[r] = "l198"
    /\ Call(r, "stream_media")
    /\ \E env \in StreamEnvs :
        LET media == msg[r].media
            out == stream_media(media # NoMedia, result[r].temp_path, 1,
                                env.total, env.fail_at, TRUE)
            downloaded_path == out.ret
        IN  /\ result' = [result EXCEPT ![r].sampled =
                              IF downloaded_path = NoPath THEN "none" ELSE media.id,
                                        ![r].chunks = out.written]
            /\ Goto(r, IF not_path(downloaded_path) THEN "l200" ELSE "l203")
    /\ UNCHANGED <<msg, files, issued, raised, parseVars, sizeVars, streamVars>>

\* bot.py lines 200-201
EditDownloadFailed(r) ==
    /\ pc[r] = "l200"
    /\ EditInTry(r, DownloadFailed, ReturnInTry)
    /\ UNCHANGED <<msg, files, calls, raised, parseVars, sizeVars, streamVars>>

\* bot.py line 203
EditAnalyzing(r) ==
    /\ pc[r] = "l203"
    /\ EditInTry(r, Analyzing, "l205")
    /\ UNCHANGED <<msg, files, calls, raised, parseVars, sizeVars, streamVars>>

\* bot.py lines 205-206 with get_mediainfo, lines 46-60
GetMediainfo(r) ==
    /\ pc[r] = "l205"
    /\ Call(r, "get_mediainfo")
    /\ \E out \in ToolOutputs(result[r].temp_path \in files) :
        /\ result' = [result EXCEPT ![r].output = out, ![r].analysed = TRUE,
                                    ![r].found = result[r].temp_path \in files]
        /\ Goto(r, IF not_output(out) THEN "l207" ELSE "l210")
    /\ UNCHANGED <<msg, files, issued, raised, parseVars, sizeVars, streamVars>>

\* bot.py lines 207-208
EditAnalysisFailed(r) ==
    /\ pc[r] = "l207"
    /\ EditInTry(r, AnalysisFailed, ReturnInTry)
    /\ UNCHANGED <<msg, files, calls, raised, parseVars, sizeVars, streamVars>>

\* bot.py line 210
EditGenerating(r) ==
    /\ pc[r] = "l210"
    /\ EditInTry(r, Generating, "l212")
    /\ UNCHANGED <<msg, files, calls, raised, parseVars, sizeVars, streamVars>>

\* bot.py line 212
ParseMediainfo(r) ==
    /\ pc[r] = "l212"
    /\ Call(r, "parse_mediainfo")
    /\ IF parse_raises(result[r].file_name, result[r].file_size)
       THEN /\ result' = [result EXCEPT ![r].exc = "AttributeError"]
            /\ Goto(r, RaiseInTry)
       ELSE /\ result' = [result EXCEPT ![r].html =
                              parse_mediainfo(result[r].output, result[r].file_name,
                                              result[r].file_size)]
            /\ Goto(r, "l213")
    /\ UNCHANGED <<msg, files, issued, raised, parseVars, sizeVars, streamVars>>

\* bot.py lines 213-218 with create_telegraph_page, lines 134-161
CreateTelegraphPage(r) ==
    /\ pc[r] = "l213"
    /\ Call(r, "create_telegraph_page")
    /\ \E env \in PageEnvs :
        LET telegraph_url == create_telegraph_page(env[1], env[2])
        IN  /\ result' = [result EXCEPT ![r].url = telegraph_url,
                                        ![r].response = env[1],
                                        ![r].fetch = env[2]]
            /\ Goto(r, IF telegraph_url # "" THEN "l223" ELSE "l232")
    /\ UNCHANGED <<msg, files, issued, raised, parseVars, sizeVars, streamVars>>

\* bot.py lines 219-230
EditSuccess(r) ==
    /\ pc[r] = "l223"
    /\ EditInTry(r, SuccessText(result[r].file_name, result[r].file_size, result[r].url),
                 ReturnInTry)
    /\ UNCHANGED <<msg, files, calls, raised, parseVars, sizeVars, streamVars>>

\* bot.py lines 231-232
EditReportFailed(r) ==
    /\ pc[r] = "l232"
    /\ EditInTry(r, ReportFailed, ReturnInTry)
    /\ UNCHANGED <<msg, files, calls, raised, parseVars, sizeVars, streamVars>>

\* bot.py lines 234-238: the finally clause
Unlink(r) ==
    /\ pc[r] \in {"l236_return", "l236_raise"}
    /\ files' = files \ {result[r].temp_path}
    /\ Goto(r, IF pc[r] = "l236_return" THEN "done" ELSE "l242")
    /\ UNCHANGED <<msg, issued, calls, result, raised, parseVars, sizeVars, streamVars>>

\* bot.py lines 240-245: the outer except handler
EditUnexpected(r) ==
    /\ pc[r] = "l242"
    /\ \E ok \in BOOLEAN :
        /\ Send(r, UnexpectedText(result[r].exc), ok)
        /\ raised' = [raised EXCEPT ![r] = ~ok]
    /\ Goto(r, "done")
    /\ UNCHANGED <<msg, files, calls, result, parseVars, sizeVars, streamVars>>

-----------------------------------------------------------------------------
(* parse_mediainfo called on its own *)

ParseCall ==
    /\ ppc = "call"
    /\ html' = parse_mediainfo(mediainfo_output, file_name, file_size)
    /\ ppc' = "done"
    /\ UNCHANGED <<mediainfo_output, file_name, file_size, procVars, sizeVars, streamVars>>

-----------------------------------------------------------------------------
(* Specifications *)

InitProc ==
    /\ pc = [r \in Reqs |-> "idle"]
    /\ msg = [r \in Reqs |-> NoMessage]
    /\ files = {}
    /\ issued = [r \in Reqs |-> <<>>]
    /\ calls = [r \in Reqs |-> <<>>]
    /\ result = [r \in Reqs |-> EmptyResult]
    /\ raised = [r \in Reqs |-> FALSE]

InitParseUnused ==
    /\ mediainfo_output = EmptyOutput
    /\ file_name = <<>>
    /\ file_size = 0
    /\ html = <<>>
    /\ ppc = "unused"

InitSizeUnused ==
    /\ size_in = Wide(0)
    /\ formatted = RaisedTypeError
    /\ fpc = "unused"

InitStreamUnused ==
    /\ stream_in = <<>>
    /\ stream_out = <<>>
    /\ spc = "unused"

Init ==
    /\ InitProc
    /\ InitParseUnused
    /\ InitSizeUnused
    /\ InitStreamUnused

Next ==
    \E r \in Reqs :
        \/ MediaHandler(r)
        \/ MediainfoCommand(r)
        \/ ReplyProcessing(r)
        \/ GetMedia(r)
        \/ EditNoMedia(r)
        \/ CreateTemp(r)
        \/ StreamMedia(r)
        \/ EditDownloadFailed(r)
        \/ EditAnalyzing(r)
        \/ GetMediainfo(r)
        \/ EditAnalysisFailed(r)
        \/ EditGenerating(r)
        \/ ParseMediainfo(r)
        \/ CreateTelegraphPage(r)
        \/ EditSuccess(r)
        \/ EditReportFailed(r)
        \/ Unlink(r)
        \/ EditUnexpected(r)

Spec == Init /\ [][Next]_vars

\* format_size called on its own (bot.py lines 62-68)
FormatCall ==
    /\ fpc = "call"
    /\ formatted' = IF format_raises(size_in) THEN RaisedTypeError
                     ELSE format_count(size_in)
    /\ fpc' = "done"
    /\ UNCHANGED <<size_in, parseVars, procVars, streamVars>>

DigitVals == {0, 1, 128, 512, 1023}

HiVals == {0, 1, 7}

\* byte counts below 2^53, and the absent count
SizeInputs ==
    { d \o <<h>> : d \in [1..5 -> DigitVals], h \in HiVals } \cup {NoneCount}

InitSize ==
    /\ InitProc
    /\ InitParseUnused
    /\ InitStreamUnused
    /\ size_in \in SizeInputs
    /\ formatted = RaisedTypeError
    /\ fpc = "call"

NextSize == FormatCall

SpecSize == InitSize /\ [][NextSize]_vars

\* Several invocations of process_media in flight at once, each started by
\* media_handler for a message that carries a document and is not a reply
ConcReqs == 1..NumConc

ConcMessage ==
    [ media |-> [id |-> "mA", file_name |-> <<"clip">>, file_size |-> 5242880],
      has_reply |-> FALSE, reply_media |-> NoMedia ]

ConcMediaHandler(r) ==
    /\ MediaHandler(r)
    /\ msg'[r] = ConcMessage

InitConc ==
    /\ pc = [r \in ConcReqs |-> "idle"]
    /\ msg = [r \in ConcReqs |-> NoMessage]
    /\ files = {}
    /\ issued = [r \in ConcReqs |-> <<>>]
    /\ calls = [r \in ConcReqs |-> <<>>]
    /\ result = [r \in ConcReqs |-> EmptyResult]
    /\ raised = [r \in ConcReqs |-> FALSE]
    /\ InitParseUnused
    /\ InitSizeUnused
    /\ InitStreamUnused

NextConc ==
    \E r \in ConcReqs :
        \/ ConcMediaHandler(r)
        \/ ReplyProcessing(r)
        \/ GetMedia(r)
        \/ CreateTemp(r)
        \/ StreamMedia(r)
        \/ EditDownloadFailed(r)
        \/ EditAnalyzing(r)
        \/ GetMediainfo(r)
        \/ EditAnalysisFailed(r)
        \/ EditGenerating(r)
        \/ ParseMediainfo(r)
        \/ CreateTelegraphPage(r)
        \/ EditSuccess(r)
        \/ EditReportFailed(r)
        \/ Unlink(r)
        \/ EditUnexpected(r)

SpecConc == InitConc /\ [][NextConc]_vars

\* stream_media called on its own (bot.py lines 26-44)
StreamCall ==
    /\ spc = "call"
    /\ stream_out' = stream_media(stream_in.has_media, 1, stream_in.limit,
                                  stream_in.total, stream_in.fail_at,
                                  stream_in.open_ok)
    /\ spc' = "done"
    /\ UNCHANGED <<stream_in, parseVars, procVars, sizeVars>>

StreamInputs ==
    [ has_media : BOOLEAN, limit : 0..MaxLimit, total : 0..MaxChunks,
      fail_at : 0..(MaxChunks + 1), open_ok : BOOLEAN ]

InitStream ==
    /\ InitProc
    /\ InitParseUnused
    /\ InitSizeUnused
    /\ stream_in \in StreamInputs
    /\ stream_out = <<>>
    /\ spc = "call"

NextStream == StreamCall

SpecStream == InitStream /\ [][NextStream]_vars

InitParse ==
    /\ InitProc
    /\ mediainfo_output \in RawInputs
    /\ file_name \in Names
    /\ file_size \in Sizes
    /\ html = <<>>
    /\ ppc = "call"
    /\ InitSizeUnused
    /\ InitStreamUnused

NextParse == ParseCall

SpecParse == InitParse /\ [][NextParse]_vars

-----------------------------------------------------------------------------
(* Reading an input and a rendered document, for the properties below *)

Labels == {"General", "Video", "Audio", "Text", "Subtitle", "Menu"}

IsNonBlank(line) == line # <<>>

\* the trimmed non-blank lines of a raw input, in input order
Trimmed(raw) == SelectSeq([i \in 1..Len(raw) |-> strip(raw[i])], IsNonBlank)

IsHeaderLine(line) == line # <<>> /\ line[1] \in Labels

HeaderIdx(T) == { i \in 1..Len(T) : IsHeaderLine(T[i]) }

NextHeader(T, h) ==
    LET later == { k \in HeaderIdx(T) : k > h }
    IN  IF later = {} THEN Len(T) + 1
        ELSE CHOOSE k \in later : \A m \in later : k <= m

\* the lines between header h and the next header (or the end of input)
ContentOf(T, h) == SubSeq(T, h + 1, NextHeader(T, h) - 1)

Esc(tok) == IF tok = "<" THEN "&lt;" ELSE IF tok = ">" THEN "&gt;" ELSE tok

EscLine(line) == [i \in 1..Len(line) |-> Esc(line[i])]

EscLines(ls) == [i \in 1..Len(ls) |-> EscLine(ls[i])]

Renamed(line) == [i \in 1..Len(line) |-> IF line[i] = "Text" THEN "Subtitle" ELSE line[i]]

HasRaw(line) == \E i \in 1..Len(line) : line[i] \in {"<", ">"}

IsBlockStart(out, i) == out[i] # <<>> /\ out[i][1] = "<h4>"

BlockEnd(out, i) ==
    CHOOSE j \in (i + 1)..Len(out) :
        /\ out[j] = <<"</pre><br>">>
        /\ \A k \in (i + 1)..(j - 1) : out[k] # <<"</pre><br>">>

BlockAt(out, i) ==
    LET body == SubSeq(out, i + 2, BlockEnd(out, i) - 1)
    IN  [ icon  |-> out[i][2],
          label |-> SubSeq(out[i], 4, Len(out[i]) - 1),
          lines |-> IF body = << <<>> >> THEN <<>> ELSE body ]

RECURSIVE BlocksFrom(_, _)
BlocksFrom(out, i) ==
    IF i > Len(out) THEN <<>>
    ELSE IF IsBlockStart(out, i) THEN <<BlockAt(out, i)>> \o BlocksFrom(out, i + 1)
    ELSE BlocksFrom(out, i + 1)

\* the section blocks of a rendered document, in order
Blocks(out) == BlocksFrom(out, 1)

\* what header h of the input is rendered as, up to renaming and escaping
\* of the label
ExpectedBlock(T, h) ==
    [ label |-> EscLine(Renamed(T[h])), lines |-> EscLines(ContentOf(T, h)) ]

RECURSIVE ExpectedFrom(_, _, _)
ExpectedFrom(T, S, i) ==
    IF i > Len(T) THEN <<>>
    ELSE IF i \in S THEN <<ExpectedBlock(T, i)>> \o ExpectedFrom(T, S, i + 1)
    ELSE ExpectedFrom(T, S, i + 1)

Shape(bs) ==
    [k \in 1..Len(bs) |-> [label |-> EscLine(Renamed(bs[k].label)), lines |-> bs[k].lines]]

WithContent(T) == { h \in HeaderIdx(T) : ContentOf(T, h) # <<>> }

RECURSIVE SumLen(_)
SumLen(bs) ==
    IF bs = <<>> THEN 0
    ELSE 3 + (IF Head(bs).lines = <<>> THEN 1 ELSE Len(Head(bs).lines)) + SumLen(Tail(bs))

-----------------------------------------------------------------------------
(* Properties of parse_mediainfo, checked under SpecParse *)

\* C1: a section header line followed by zero content lines before the next
\* header line or the end of input produces no section block: the blocks of
\* the output are as many as the headers that have content, and none of them
\* has an empty preformatted body.
C1_EmptySectionNeverRendered ==
    ppc = "done" =>
        LET T == Trimmed(mediainfo_output)
            bs == Blocks(html)
        IN  /\ Len(bs) = Cardinality(WithContent(T))
            /\ \A k \in 1..Len(bs) : bs[k].lines # <<>>

\* C2 as stated: every header line opens a section, every closed section is
\* rendered exactly once and in order, so the blocks of the output are the
\* sections of all header lines, one block per header line.
C2_EverySectionRenderedOnce ==
    ppc = "done" =>
        LET T == Trimmed(mediainfo_output)
        IN  Shape(Blocks(html)) = ExpectedFrom(T, HeaderIdx(T), 1)

\* C2 amended: the blocks of the output are, in input order, the sections of
\* a set of header lines that contains every header line with at least one
\* content line (a section without content is rendered at most once); each
\* block holds exactly the non-header lines between its header and the next
\* one, in input order; nothing else is in the document, so lines before the
\* first header appear nowhere and equal labels are never merged.
C2_SectionsWithContentRenderedOnce ==
    ppc = "done" =>
        LET T == Trimmed(mediainfo_output)
            bs == Blocks(html)
        IN  /\ \E S \in SUBSET HeaderIdx(T) :
                /\ WithContent(T) \subseteq S
                /\ Shape(bs) = ExpectedFrom(T, S, 1)
            /\ Len(html) = 5 + SumLen(bs)

C2_Witness ==
    /\ ppc = "done"
    /\ LET bs == Blocks(html)
       IN  \E j, k \in 1..Len(bs) :
            /\ j < k
            /\ bs[j].label = bs[k].label
            /\ bs[j].lines # <<>>
            /\ bs[k].lines # <<>>
            /\ bs[j].lines # bs[k].lines

\* C3: every section block carries the icon the label-to-icon mapping gives
\* to the recognised label its header line starts with; the default glyph
\* is never emitted.
C3_IconOfRecognizedLabel ==
    ppc = "done" =>
        LET bs == Blocks(html)
        IN  \A k \in 1..Len(bs) :
                /\ bs[k].icon # DefaultIcon
                /\ bs[k].label # <<>>
                /\ bs[k].label[1] \in DOMAIN SECTION_ICONS
                /\ bs[k].icon = SECTION_ICONS[bs[k].label[1]]

\* C4: every "<" and ">" of the display name in the header block and of
\* every content line placed in a section block is replaced by "&lt;" and
\* "&gt;"; none of them reaches the output unescaped.
C4_NameAndContentEscaped ==
    ppc = "done" =>
        LET T == Trimmed(mediainfo_output)
            bs == Blocks(html)
            content == SelectSeq(T, LAMBDA l : ~IsHeaderLine(l))
        IN  /\ html[2] = <<"<p><strong>File Name:</strong> <em>">>
                         \o EscLine(file_name) \o <<"</em></p>">>
            /\ \A k \in 1..Len(bs) : \A i \in 1..Len(bs[k].lines) :
                   ~HasRaw(bs[k].lines[i])
            /\ \A k \in 1..Len(bs) : \A i \in 1..Len(bs[k].lines) :
                   \E j \in 1..Len(content) : bs[k].lines[i] = EscLine(content[j])

C4_Witness ==
    /\ ppc = "done"
    /\ HasRaw(file_name)
    /\ LET bs == Blocks(html)
       IN  \E k \in 1..Len(bs) : \E i \in 1..Len(bs[k].lines) :
               bs[k].lines[i] = <<"&lt;", "x", "&gt;">>

\* C5: angle brackets are escaped in every rendered line, the section header
\* line shown as a sub-heading included: no line of the output holds a raw
\* "<" or ">" of the input.
C5_EveryRenderedLineEscaped ==
    ppc = "done" => \A i \in 1..Len(html) : ~HasRaw(html[i])

\* C6: a header line that starts with "Text" opens a section that is
\* rendered with "Subtitle" in place of "Text", with the icon of Text, and
\* with exactly the content lines that follow it.
C6_TextRenderedAsSubtitle ==
    ppc = "done" =>
        LET T == Trimmed(mediainfo_output)
            bs == Blocks(html)
        IN  \A h \in WithContent(T) :
                startswith(T[h], "Text") =>
                    \E k \in 1..Len(bs) :
                        /\ bs[k].label = Renamed(T[h])
                        /\ bs[k].icon = SECTION_ICONS["Text"]
                        /\ bs[k].lines = EscLines(ContentOf(T, h))

-----------------------------------------------------------------------------
(* Properties of process_media, checked under Spec *)

Stages == <<"stream_media", "get_mediainfo", "parse_mediainfo", "create_telegraph_page">>

Invoked(r, stage) == \E i \in 1..Len(calls[r]) : calls[r][i] = stage

IsDelivered(e) == e.delivered

\* the texts the requester has seen, in order
Shown(r) == SelectSeq(issued[r], IsDelivered)

AllDelivered(r) == \A i \in 1..Len(issued[r]) : issued[r][i].delivered

Issued(r, text) == \E i \in 1..Len(issued[r]) : issued[r][i].text = text

FailureTexts ==
    { "Please send a media file or reply to one with /mediainfo",
      "Failed to download media sample!",
      "Failed to analyze media!",
      "Failed to generate report!",
      "An error occurred while processing the media! Please try again later." }

ProgressTexts ==
    { "Processing media info...", "Analyzing media info...", "Generating report..." }

IsSuccess(t) == t.text = "Media Information" /\ t.url = PageUrl

IsTerminal(t) == t.text \in FailureTexts \/ IsSuccess(t)

TerminalAt(r) == { i \in 1..Len(issued[r]) : IsTerminal(issued[r][i].text) }

ShownTerminalAt(r) == { i \in TerminalAt(r) : issued[r][i].delivered }

\* the request was handed to process_media and process_media has ended
Ended(r) == pc[r] = "done"

\* C7: when get_mediainfo returns an empty string, process_media sends the
\* analysis-failure message as its next status text, it is what the
\* requester is left with when the sends are delivered, and neither
\* parse_mediainfo nor create_telegraph_page is invoked for that request.
C7_EmptyAnalysisReportedNotPublished ==
    \A r \in Reqs :
        (result[r].analysed /\ result[r].output = EmptyOutput) =>
            /\ ~Invoked(r, "parse_mediainfo")
            /\ ~Invoked(r, "create_telegraph_page")
            /\ pc[r] = "l207" \/ Issued(r, AnalysisFailed)
            /\ (Ended(r) /\ AllDelivered(r)) =>
                   issued[r][Len(issued[r])].text = AnalysisFailed

C7_Witness ==
    \E r \in Reqs :
        /\ Ended(r)
        /\ result[r].analysed
        /\ result[r].output = EmptyOutput
        /\ AllDelivered(r)
        /\ result[r].temp_path \notin files

C10_StagesSequentialNoRetry ==
    \A r \in Reqs :
        /\ Len(calls[r]) <= Len(Stages)
        /\ calls[r] = SubSeq(Stages, 1, Len(calls[r]))
        /\ Invoked(r, "get_mediainfo") => result[r].sampled # "none"
        /\ Invoked(r, "parse_mediainfo") =>
               result[r].analysed /\ result[r].output # EmptyOutput
        /\ Invoked(r, "create_telegraph_page") => result[r].html # <<>>

C10_Witness ==
    \E r \in Reqs :
        /\ Ended(r)
        /\ calls[r] = Stages
        /\ result[r].url = PageUrl


-----------------------------------------------------------------------------
(* Which media item a request is about *)

HasMedia(m) == m # NoMedia

\* C11: the no-media-found message is sent if and only if the message has
\* neither a media item of its own nor a replied-to message with a media
\* item; a message with its own media that replies to a message without
\* media is processed.
C11_NoMediaFoundIffNoMediaAtAll ==
    \A r \in Reqs :
        /\ Issued(r, NoMediaFound) =>
               ~HasMedia(msg[r].media) /\ ~(msg[r].has_reply /\ HasMedia(msg[r].reply_media))
        /\ (pc[r] \notin {"idle", "rejected", "l182", "l184"} /\ ~raised[r]
            /\ ~HasMedia(msg[r].media)
            /\ ~(msg[r].has_reply /\ HasMedia(msg[r].reply_media))) =>
               pc[r] = "l186" \/ Issued(r, NoMediaFound)

\* C12: for a media item whose file name is absent, process_media uses the
\* placeholder name "Unknown" and the request does not end in the
\* unexpected-error outcome because of the absent name.
C12_AbsentNameUsesPlaceholder ==
    \A r \in Reqs :
        LET media == get_media_from_message(msg[r])
        IN  (HasMedia(media) /\ media.file_name \in {NoneName, MissingName}
             /\ pc[r] \notin {"idle", "rejected", "l182", "l184"} /\ ~raised[r]) =>
                /\ result[r].file_name = <<"Unknown">>
                /\ result[r].exc # "AttributeError"

\* C19: the media item whose file name and size are reported is the media
\* item whose bytes were sampled by stream_media, also when the processed
\* message carries its own media and replies to a message that carries media.
C19_ReportedMediaIsSampledMedia ==
    \A r \in Reqs :
        result[r].sampled # "none" =>
            \E m \in MediaItems :
                /\ m.id = result[r].sampled
                /\ result[r].file_name = getattr_file_name(m)
                /\ result[r].file_size = getattr_file_size(m)


-----------------------------------------------------------------------------
(* Properties of format_size, checked under SpecSize *)

AllUnits == Units \o <<"PB">>

\* the highest non-zero digit of a count, 1 for the count zero
TopDigit(c) ==
    IF \A j \in 1..6 : c[j] = 0 THEN 1
    ELSE CHOOSE j \in 1..6 : c[j] # 0 /\ \A i \in (j + 1)..6 : c[i] = 0

\* round a / b to the nearest integer, ties to even
RoundHalfEven(a, b) ==
    LET q == a \div b
        r == a % b
    IN  IF 2 * r < b THEN q
        ELSE IF 2 * r > b THEN q + 1
        ELSE IF q % 2 = 0 THEN q ELSE q + 1

Pow1024(k) == IF k = 0 THEN 1 ELSE IF k = 1 THEN 1024 ELSE 1048576

\* counts small enough to compute 100 * count directly
IsSmall(c) == c[3] <= 1 /\ c[4] = 0 /\ c[5] = 0 /\ c[6] = 0

Num(c) == c[1] + 1024 * c[2] + 1048576 * c[3]

UnitIndex(u) == CHOOSE k \in 1..Len(AllUnits) : AllUnits[k] = u

\* C13 as stated: the unit is the smallest one for which the displayed value
\* (rounded to two decimals) is below 1024, counts of at least 1024^5 being
\* shown in PB; format_size(0), format_size(1536), format_size(1073741824)
\* are "0.00 B", "1.50 KB", "1.00 GB".
C13_DisplayedValueBelow1024 ==
    (fpc = "done" /\ size_in # NoneCount) =>
        LET k == UnitIndex(formatted.unit)
        IN  /\ formatted.unit # "PB" => formatted.value < 102400
            /\ \A j \in 1..(k - 1) :
                   ~(TopDigit(size_in) <= j /\ size_in[j] < 1023)
            /\ size_in = Wide(0) => formatted.text = "0.00 B"
            /\ size_in = Wide(1536) => formatted.text = "1.50 KB"
            /\ size_in = Wide(1073741824) => formatted.text = "1.00 GB"

\* C13 amended: the unit is the smallest one for which the count divided by
\* the unit's power of 1024, before rounding, is below 1024, counts of at
\* least 1024^5 being shown in PB; the displayed value is that quotient
\* rounded to two decimals (ties to even) and so can read 1024.00.
C13_UnroundedValueBelow1024 ==
    (fpc = "done" /\ size_in # NoneCount) =>
        LET k == TopDigit(size_in)
        IN  /\ formatted.unit = AllUnits[k]
            /\ formatted.value >= 100 * size_in[k]
            /\ formatted.value <= 100 * size_in[k] + 100
            /\ formatted.unit # "PB" => formatted.value <= 102400
            /\ IsSmall(size_in) =>
                   formatted.value = RoundHalfEven(100 * Num(size_in), Pow1024(k - 1))
            /\ size_in = Wide(0) => formatted.text = "0.00 B"
            /\ size_in = Wide(1536) => formatted.text = "1.50 KB"
            /\ size_in = Wide(1073741824) => formatted.text = "1.00 GB"

C13_Witness ==
    /\ fpc = "done"
    /\ size_in = <<1023, 1023, 0, 0, 0, 0>>
    /\ formatted.text = "1024.00 KB"

\* C14: format_size has no error outcome; an absent byte count is formatted
\* exactly like zero.
C14_AbsentSizeFormattedAsZero ==
    fpc = "done" =>
        /\ formatted # RaisedTypeError
        /\ size_in = NoneCount => formatted.text = "0.00 B"


-----------------------------------------------------------------------------
(* Properties of create_telegraph_page, checked under Spec *)

\* C15: create_telegraph_page returns a URL only if the page creation
\* returned a response with a path and the follow-up fetch completed with a
\* success status; on an invalid response, a non-success status or an
\* exception in any step it returns None and raises nothing to its caller.
C15_UrlOnlyForVerifiedPage ==
    \A r \in Reqs :
        Invoked(r, "create_telegraph_page") =>
            /\ result[r].url # "" <=>
                   (result[r].response = "path" /\ result[r].fetch = "200")
            /\ result[r].url \in {"", PageUrl}
            /\ pc[r] \in {"l223", "l232"}
                   \/ Issued(r, ReportFailed)
                   \/ \E i \in 1..Len(issued[r]) : IsSuccess(issued[r][i].text)

C15_Witness ==
    \E r \in Reqs :
        /\ Ended(r)
        /\ result[r].response = "path"
        /\ result[r].fetch = "404"
        /\ AllDelivered(r)
        /\ issued[r][Len(issued[r])].text = ReportFailed


-----------------------------------------------------------------------------
(* Properties of stream_media *)

C20_SuccessNeedsAChunk ==
    \A r \in Reqs :
        /\ result[r].sampled # "none" => result[r].chunks >= 1
        /\ Invoked(r, "get_mediainfo") => result[r].chunks >= 1


-----------------------------------------------------------------------------
(* Blank lines *)

IsBlankLine(rawline) == \A i \in 1..Len(rawline) : rawline[i] = " "

IsKept(rawline) == ~IsBlankLine(rawline)

\* the input with its blank lines removed; a text with no line left is the
\* empty text, which is one empty line
WithoutBlankLines(raw) ==
    LET kept == SelectSeq(raw, IsKept)
    IN  IF kept = <<>> THEN << <<>> >> ELSE kept

\* C17 (SpecParse): blank lines never open, close or populate a section: the
\* output for an input equals the output for that input without its blank
\* lines, and an input made only of blank lines gives exactly the header block
\* followed by the disclaimer.
C17_BlankLinesIgnored ==
    ppc = "done" =>
        /\ html = parse_mediainfo(WithoutBlankLines(mediainfo_output),
                                  file_name, file_size)
        /\ (\A i \in 1..Len(mediainfo_output) : IsBlankLine(mediainfo_output[i]))
               => html = HeaderBlock(file_name, file_size) \o <<Disclaimer>>

\* a parsed input with a blank line between a header and its content, whose
\* section is rendered
C17_Witness ==
    /\ ppc = "done"
    /\ Len(mediainfo_output) = 3
    /\ IsHeaderLine(strip(mediainfo_output[1]))
    /\ IsBlankLine(mediainfo_output[2])
    /\ IsKept(mediainfo_output[3])
    /\ ~IsHeaderLine(strip(mediainfo_output[3]))
    /\ Len(html) > Len(HeaderBlock(file_name, file_size)) + 1


-----------------------------------------------------------------------------
(* Concurrent requests *)

\* the request has created its sample file and has not reached the end of
\* the finally clause
InTry(r) == result[r].temp_path # NoPath /\ pc[r] \notin {"done", "l242"}

\* what a request that ran alone shows last, from the results of its own
\* stages, when every send is delivered
AloneOutcome(res) ==
    IF res.exc # "" THEN UnexpectedText(res.exc)
    ELSE IF res.sampled = "none" THEN DownloadFailed
    ELSE IF res.output = EmptyOutput THEN AnalysisFailed
    ELSE IF res.url = "" THEN ReportFailed
    ELSE SuccessText(res.file_name, res.file_size, res.url)

\* C18 (SpecConc): in every interleaving of the stages of concurrent
\* requests, no two requests share a sample file, the files in storage are
\* exactly those of the requests inside their try block (each request
\* deletes its own file and nobody else's), the analysis of a request reads
\* its own file, and what a request shows last is what its own stage results
\* give when it runs alone, whatever happened to the other requests.
C18_RequestsIsolated ==
    /\ \A r \in DOMAIN pc : \A s \in DOMAIN pc :
           (r # s /\ result[r].temp_path # NoPath /\ result[s].temp_path # NoPath)
               => result[r].temp_path # result[s].temp_path
    /\ files = { result[r].temp_path : r \in { s \in DOMAIN pc : InTry(s) } }
    /\ \A r \in DOMAIN pc :
           /\ result[r].analysed => result[r].found
           /\ (Ended(r) /\ AllDelivered(r)) =>
                  issued[r][Len(issued[r])].text = AloneOutcome(result[r])

\* one request has ended in a download failure and removed its file while
\* another is inside its try block, about to analyse its own sample, which
\* is still in storage
C18_Witness ==
    \E r \in DOMAIN pc : \E s \in DOMAIN pc :
        /\ r # s
        /\ Ended(r)
        /\ result[r].temp_path # NoPath
        /\ Issued(r, DownloadFailed)
        /\ pc[s] = "l205"
        /\ result[s].temp_path \in files

====
